---- MODULE Spec2Model ----
(***************************************************************************)
(* Model of Clipco.py: the highlight detector (analyze_for_clips), the     *)
(* clip renderer (generate_short_clips), the display loop that consumes    *)
(* the rendered files, and the "Generate Clips" script run with its        *)
(* temporary files.                                                        *)
(*                                                                         *)
(* Numbers: Python floats are modelled as exact rationals (records         *)
(* [n, d] in lowest terms, d > 0); ints are rationals with d = 1, so the   *)
(* int 9 and the float 9.0 are the same set element, as in Python.         *)
(* Text: a string is a sequence of one-character strings.                  *)
(***************************************************************************)
EXTENDS Integers, Sequences, FiniteSets, TLC

VARIABLES
  audio,        \* audio.to_soundarray(fps=44100).flatten(): sequence of samples
  duration,     \* clip.duration of the source video
  subs,         \* [given, text]: whether subtitles_path is set, and the file's contents
  pc,           \* position of the script
  err,          \* the exception that ended the script, or "none"
  clip_starts,  \* value returned by analyze_for_clips
  i,            \* loop index of generate_short_clips (0-based, as enumerate)
  clip_files,   \* the list built inside generate_short_clips
  returned,     \* [ok, files]: whether generate_short_clips returned, and its list
  subclips,     \* log of full_clip.subclip(start, end) calls
  writes,       \* log of write_videofile calls: [file, start, end]
  progress,     \* last value given to progress_bar.progress
  disk,         \* files that exist in temporary storage
  shown,        \* log of st.video(clip_file) calls: [file, existed]
  run,          \* number of script runs started by the button
  cache,        \* st.cache_data of download_video: url -> returned path
  url,          \* youtube_url of the current run
  subtitles_file, \* whether a .vtt file is uploaded in the current run
  video_path,   \* value returned by download_video
  subtitles_path, \* temp_file.name of the copied subtitles, or NoPath
  nextTmp       \* names handed out by tempfile so far

vars == <<audio, duration, subs, pc, err, clip_starts, i, clip_files, returned,
          subclips, writes, progress, disk, shown, run, cache, url,
          subtitles_file, video_path, subtitles_path, nextTmp>>

detectorVars == <<audio, duration, subs>>
renderVars == <<i, clip_files, returned, subclips, writes, progress, shown>>
pipelineVars == <<run, cache, url, subtitles_file, video_path, subtitles_path, nextTmp>>

----------------------------------------------------------------------------
(* Bounds of the explored inputs *)

MaxMag == 2            \* base magnitudes m of the 10-sample tracks
MaxTranscriptLen == 4  \* length of the generated transcripts
MaxRuns == 3           \* script runs explored in the pipeline

(* Program constants *)

ClipLen == 30          \* start + 30
MaxClips == 5          \* all_times[:5]
PeakDiv == 100         \* len(peaks)//100
ThreshNum == 3         \* avg_volume * 1.5 = avg_volume * 3 / 2
ThreshDen == 2

\* subtitles_path=None: no text is read
NoSubs == [given |-> FALSE, text |-> <<>>]
\* a subtitles file whose contents are s
SubsOf(s) == [given |-> TRUE, text |-> s]
\* generate_short_clips has not returned a list
NotReturned == [ok |-> FALSE, files |-> <<>>]
NoPath == [dir |-> "none", n |-> 0]

----------------------------------------------------------------------------
(* Rational arithmetic *)

Abs(x) == IF x < 0 THEN -x ELSE x

RECURSIVE Gcd(_, _)
Gcd(a, b) == IF b = 0 THEN a ELSE Gcd(b, a % b)

Frac(n, d) ==
  LET g == Gcd(Abs(n), d)
  IN  IF n = 0 THEN [n |-> 0, d |-> 1] ELSE [n |-> n \div g, d |-> d \div g]

FromInt(k) == [n |-> k, d |-> 1]
FAdd(a, b) == Frac(a.n * b.d + b.n * a.d, a.d * b.d)
FMul(a, b) == Frac(a.n * b.n, a.d * b.d)
FLess(a, b) == a.n * b.d < b.n * a.d
FLeq(a, b) == a.n * b.d <= b.n * a.d
FMin(a, b) == IF FLeq(a, b) THEN a ELSE b

----------------------------------------------------------------------------
(* analyze_for_clips *)

\* sum(volumes)
RECURSIVE SumRange(_, _, _)
SumRange(s, lo, hi) ==
  IF lo > hi THEN 0
  ELSE IF lo = hi THEN s[lo]
  ELSE LET mid == (lo + hi) \div 2
       IN  SumRange(s, lo, mid) + SumRange(s, mid + 1, hi)

\* volumes = [abs(sample) for sample in ...]
Volumes(a) == [k \in 1..Len(a) |-> Abs(a[k])]

\* avg_volume = sum(volumes) / len(volumes)   (len(volumes) > 0)
AvgVolume(vol) == Frac(SumRange(vol, 1, Len(vol)), Len(vol))

\* v > avg_volume * 1.5
IsPeak(v, avg) == FLess(FMul(avg, Frac(ThreshNum, ThreshDen)), FromInt(v))

\* peaks = [i for i, v in enumerate(volumes) if v > avg_volume * 1.5]
Peaks(vol) ==
  LET avg == AvgVolume(vol)
  IN  SelectSeq([k \in 1..Len(vol) |-> k - 1], LAMBDA ix : IsPeak(vol[ix + 1], avg))

AllPeaks(peaks) == peaks

\* peaks[:len(peaks)//100]
ThrottledPeaks(peaks) == SubSeq(peaks, 1, Len(peaks) \div PeakDiv)

engaging_keywords ==
  << <<"a","m","a","z","i","n","g">>,
     <<"s","h","o","c","k","i","n","g">>,
     <<"e","p","i","c">>,
     <<"m","u","s","t","-","s","e","e">>,
     <<"w","o","w">> >>

UpperChars == <<"A","B","C","D","E","F","G","H","I","J","K","L","M",
                "N","O","P","Q","R","S","T","U","V","W","X","Y","Z">>
LowerChars == <<"a","b","c","d","e","f","g","h","i","j","k","l","m",
                "n","o","p","q","r","s","t","u","v","w","x","y","z">>

\* re.IGNORECASE on the letters of the alphabet
Lower(c) ==
  IF \E k \in 1..26 : UpperChars[k] = c
  THEN LowerChars[CHOOSE k \in 1..26 : UpperChars[k] = c]
  ELSE c

\* the pattern kw matches the text s at 0-based position p
MatchesAt(kw, s, p) ==
  /\ p + Len(kw) <= Len(s)
  /\ \A j \in 1..Len(kw) : Lower(s[p + j]) = Lower(kw[j])

\* re.finditer(keyword, subs, re.IGNORECASE): the match.start() values, scanning
\* left to right and resuming after the end of each match
RECURSIVE FindIter(_, _, _)
FindIter(kw, s, from) ==
  LET starts == {p \in from..(Len(s) - Len(kw)) : MatchesAt(kw, s, p)}
  IN  IF starts = {} THEN <<>>
      ELSE LET p == CHOOSE q \in starts : \A r \in starts : q <= r
           IN  <<p>> \o FindIter(kw, s, p + Len(kw))

OneBasedTime(p, L, dur) == Frac((p + 1) * dur, L)

\* match.start() / len(subs) * clip.duration
EstimatedTime(p, L, dur) == Frac(p * dur, L)

\* the inner loop over the matches of one keyword
KeywordTimes(kw, s, dur) ==
  LET ms == FindIter(kw, s, 0)
  IN  [k \in 1..Len(ms) |-> EstimatedTime(ms[k], Len(s), dur)]

\* engaging_times after the loop over engaging_keywords
RECURSIVE EngagingFrom(_, _, _)
EngagingFrom(k, s, dur) ==
  IF k > Len(engaging_keywords) THEN <<>>
  ELSE KeywordTimes(engaging_keywords[k], s, dur) \o EngagingFrom(k + 1, s, dur)

\* if subtitles_path: ... (engaging_times stays [] otherwise)
EngagingTimes(s, dur) == IF s.given THEN EngagingFrom(1, s.text, dur) ELSE <<>>

Range(s) == {s[k] : k \in 1..Len(s)}

\* sorted(set(...))
RECURSIVE Sorted(_)
Sorted(S) ==
  IF S = {} THEN <<>>
  ELSE LET m == CHOOSE x \in S : \A y \in S : FLeq(x, y)
       IN  <<m>> \o Sorted(S \ {m})

PeakTimes(a) ==
  LET t == ThrottledPeaks(Peaks(Volumes(a)))
  IN  [k \in 1..Len(t) |-> FromInt(t[k])]

\* all_times = sorted(set(peaks[:len(peaks)//100] + engaging_times))
AllTimes(a, dur, s) == Sorted(Range(PeakTimes(a) \o EngagingTimes(s, dur)))

TakeSix(all) == IF Len(all) >= MaxClips + 1 THEN SubSeq(all, 1, MaxClips + 1) ELSE all

\* clip_starts = all_times[:5] if len(all_times) >= 5 else all_times
TakeFirst(all) == IF Len(all) >= MaxClips THEN SubSeq(all, 1, MaxClips) ELSE all

AnalyzeForClips(a, dur, s) == TakeFirst(AllTimes(a, dur, s))

----------------------------------------------------------------------------
(* Inputs *)

\* 10 samples of magnitude m (alternating sign) with the sample at j ten times as loud
Spike(m, j) == [k \in 1..10 |-> IF k = j THEN 10 * m ELSE IF k % 2 = 0 THEN -m ELSE m]

\* n samples of magnitude 1 with c samples of magnitude 20 starting at index s
Burst(n, s, c) == [k \in 1..n |-> IF k > s /\ k <= s + c THEN (IF k % 2 = 0 THEN -20 ELSE 20) ELSE 1]

Audios ==
  {<<>>}
  \cup {Spike(m, j) : m \in 1..MaxMag, j \in {1, 10}}
  \cup {Burst(160, s, 100) : s \in {0, 25, 50}}
  \cup {Burst(310, 8, 200)}

Durations == {20, 36, 100}

ScenarioTranscript ==
  <<"t","h","i","s"," ","i","s"," ","a","m","a","z","i","n","g"," ",
    "a","n","d"," ","a","l","s","o"," ","s","h","o","c","k","i","n","g">>

ManyKeywords ==
  <<"W","O","W"," ","e","p","i","c"," ","w","o","w"," ","A","m","a","z","i","n","g"," ",
    "m","u","s","t","-","s","e","e"," ","s","h","o","c","k","i","n","g"," ","w","o","w">>

Overlapping == <<"w","o","w","o","w","o","W">>

RECURSIVE SeqsUpTo(_, _)
SeqsUpTo(A, n) ==
  IF n = 0 THEN {<<>>}
  ELSE LET prev == SeqsUpTo(A, n - 1)
       IN  prev \cup {Append(s, c) : s \in prev, c \in A}

Transcripts ==
  {ScenarioTranscript, ManyKeywords, Overlapping}
  \cup SeqsUpTo({"w", "o", "W"}, MaxTranscriptLen)

----------------------------------------------------------------------------
(* Detector, renderer and display on a decodable source video *)

Init ==
  /\ audio \in Audios
  /\ duration \in Durations
  /\ subs \in {SubsOf(s) : s \in Transcripts} \cup {NoSubs}
  /\ pc = "analyze"
  /\ err = "none"
  /\ clip_starts = <<>>
  /\ i = 0
  /\ clip_files = <<>>
  /\ returned = NotReturned
  /\ subclips = <<>>
  /\ writes = <<>>
  /\ progress = FromInt(0)
  /\ disk = {}
  /\ shown = <<>>
  /\ run = 0
  /\ cache = {}
  /\ url = ""
  /\ subtitles_file = FALSE
  /\ video_path = NoPath
  /\ subtitles_path = NoPath
  /\ nextTmp = 0

\* lines 122-126: clip_starts = analyze_for_clips(...); if not clip_starts: st.stop()
Analyze ==
  /\ pc = "analyze"
  /\ IF Len(audio) = 0
     THEN /\ err' = "ZeroDivisionError"
          /\ pc' = "failed"
          /\ UNCHANGED clip_starts
     ELSE /\ clip_starts' = AnalyzeForClips(audio, duration, subs)
          /\ pc' = IF clip_starts' = <<>> THEN "no_clips" ELSE "render"
          /\ UNCHANGED err
  /\ UNCHANGED <<detectorVars, renderVars, disk, pipelineVars>>

RenderDir == "render_tmp"

ZeroBasedName(k) == [dir |-> RenderDir, n |-> k]

\* os.path.join(temp_dir, f"short_{i+1}.mp4") for loop index k
OutputFile(k) == [dir |-> RenderDir, n |-> k + 1]

\* end = min(start + 30, full_clip.duration)
ClipEnd(start, dur) == FMin(FAdd(start, FromInt(ClipLen)), FromInt(dur))

\* lines 50-53: temporary directory, clip_files = [], progress bar at 0
RenderBegin ==
  /\ pc = "render"
  /\ clip_files' = <<>>
  /\ i' = 0
  /\ progress' = FromInt(0)
  /\ pc' = "loop"
  /\ UNCHANGED <<detectorVars, err, clip_starts, returned, subclips, writes, disk,
                 shown, pipelineVars>>

\* lines 54-62, one iteration in which extraction and encoding succeed
RenderClipOk ==
  /\ pc = "loop"
  /\ i < Len(clip_starts)
  /\ LET start == clip_starts[i + 1]
         end == ClipEnd(start, duration)
         output_file == OutputFile(i)
     IN  /\ subclips' = Append(subclips, [start |-> start, end |-> end])
         /\ writes' = Append(writes, [file |-> output_file, start |-> start, end |-> end])
         /\ disk' = disk \cup {output_file}
         /\ clip_files' = Append(clip_files, output_file)
         /\ progress' = Frac(i + 1, Len(clip_starts))
  /\ i' = i + 1
  /\ UNCHANGED <<detectorVars, pc, err, clip_starts, returned, shown, pipelineVars>>

RenderClipSkip ==
  /\ pc = "loop"
  /\ i < Len(clip_starts)
  /\ LET start == clip_starts[i + 1]
     IN  subclips' = Append(subclips, [start |-> start, end |-> ClipEnd(start, duration)])
  /\ i' = i + 1
  /\ UNCHANGED <<detectorVars, pc, err, clip_starts, returned, shown, pipelineVars,
                 writes, disk, clip_files, progress>>

\* lines 54-60, an iteration in which subclip, TextClip or write_videofile raises:
\* nothing catches it, the temporary directory is removed on the way out
RenderClipFail ==
  /\ pc = "loop"
  /\ i < Len(clip_starts)
  /\ LET start == clip_starts[i + 1]
     IN  subclips' = Append(subclips, [start |-> start, end |-> ClipEnd(start, duration)])
  /\ disk' = {f \in disk : f.dir # RenderDir}
  /\ err' = "RenderError"
  /\ pc' = "failed"
  /\ UNCHANGED <<detectorVars, clip_starts, i, clip_files, returned, writes, progress,
                 shown, pipelineVars>>

\* line 63 and the exit of the with block: the list is returned, the directory removed
RenderReturn ==
  /\ pc = "loop"
  /\ i = Len(clip_starts)
  /\ returned' = [ok |-> TRUE, files |-> clip_files]
  /\ disk' = {f \in disk : f.dir # RenderDir}
  /\ pc' = "display"
  /\ UNCHANGED <<detectorVars, err, clip_starts, i, clip_files, subclips, writes,
                 progress, shown, pipelineVars>>

\* lines 133-135: st.video(clip_file) and the download link read the file
Display ==
  /\ pc = "display"
  /\ Len(shown) < Len(returned.files)
  /\ LET clip_file == returned.files[Len(shown) + 1]
     IN  /\ shown' = Append(shown, [file |-> clip_file, existed |-> clip_file \in disk])
         /\ IF clip_file \in disk
            THEN /\ pc' = IF Len(shown) + 1 = Len(returned.files) THEN "done" ELSE "display"
                 /\ UNCHANGED err
            ELSE /\ pc' = "failed"
                 /\ err' = "FileNotFoundError"
  /\ UNCHANGED <<detectorVars, clip_starts, i, clip_files, returned, subclips, writes,
                 progress, disk, pipelineVars>>

Next ==
  \/ Analyze
  \/ RenderBegin
  \/ RenderClipOk
  \/ RenderClipFail
  \/ RenderReturn
  \/ Display

Spec == Init /\ [][Next]_vars

----------------------------------------------------------------------------
(* The "Generate Clips" script run: download, subtitles copy, opening the video *)

Urls == {"", "u1", "u2"}

InitPipeline ==
  /\ audio = <<>>
  /\ duration = 20
  /\ subs = NoSubs
  /\ pc = "idle"
  /\ err = "none"
  /\ clip_starts = <<>>
  /\ i = 0
  /\ clip_files = <<>>
  /\ returned = NotReturned
  /\ subclips = <<>>
  /\ writes = <<>>
  /\ progress = FromInt(0)
  /\ disk = {}
  /\ shown = <<>>
  /\ run = 0
  /\ cache = {}
  /\ url = ""
  /\ subtitles_file = FALSE
  /\ video_path = NoPath
  /\ subtitles_path = NoPath
  /\ nextTmp = 0

\* lines 101-107: the button is pressed with the current inputs
ClickGenerate ==
  /\ pc = "idle"
  /\ run < MaxRuns
  /\ \E u \in Urls, f \in BOOLEAN :
       /\ url' = u
       /\ subtitles_file' = f
       /\ pc' = IF u = "" THEN "idle" ELSE "download"
  /\ run' = run + 1
  /\ err' = "none"
  /\ video_path' = NoPath
  /\ subtitles_path' = NoPath
  /\ UNCHANGED <<detectorVars, clip_starts, renderVars, disk, cache, nextTmp>>

\* line 110 when st.cache_data holds a value for this url: the body is not run
DownloadCached ==
  /\ pc = "download"
  /\ \E c \in cache : c.url = url /\ video_path' = c.path
  /\ pc' = "subtitles"
  /\ UNCHANGED <<detectorVars, err, clip_starts, renderVars, disk, run, cache, url,
                 subtitles_file, subtitles_path, nextTmp>>

\* the with block of download_video: the file is written into the temporary
\* directory, and the directory is removed when the block is left
AfterDownload(d, file) == {f \in d \cup {file} : f # file}

\* lines 19-24 and 110-111: the download succeeds and the path is returned and cached
DownloadOk ==
  /\ pc = "download"
  /\ \A c \in cache : c.url # url
  /\ LET file_path == [dir |-> "download_tmp", n |-> nextTmp]
     IN  /\ disk' = AfterDownload(disk, file_path)
         /\ video_path' = file_path
         /\ cache' = cache \cup {[url |-> url, path |-> file_path]}
  /\ nextTmp' = nextTmp + 1
  /\ pc' = "subtitles"
  /\ UNCHANGED <<detectorVars, err, clip_starts, renderVars, run, url, subtitles_file,
                 subtitles_path>>

\* lines 19-23 and 112-114: YouTube(url) or stream.download raises; st.error, st.stop
DownloadFail ==
  /\ pc = "download"
  /\ \A c \in cache : c.url # url
  /\ nextTmp' = nextTmp + 1
  /\ err' = "DownloadError"
  /\ pc' = "idle"
  /\ UNCHANGED <<detectorVars, clip_starts, renderVars, disk, run, cache, url,
                 subtitles_file, video_path, subtitles_path>>

\* NamedTemporaryFile(delete=False, suffix=".vtt"): the file stays after the with block
WriteTemp(d, file) == d \cup {file}

\* lines 117-121: the uploaded subtitles are copied to a named temporary file
WriteSubtitles ==
  /\ pc = "subtitles"
  /\ IF subtitles_file
     THEN LET temp_file == [dir |-> "tmp", n |-> nextTmp]
          IN  /\ disk' = WriteTemp(disk, temp_file)
              /\ subtitles_path' = temp_file
              /\ nextTmp' = nextTmp + 1
     ELSE UNCHANGED <<disk, subtitles_path, nextTmp>>
  /\ pc' = "open_video"
  /\ UNCHANGED <<detectorVars, err, clip_starts, renderVars, run, cache, url,
                 subtitles_file, video_path>>

\* line 122 -> line 28: VideoFileClip(video_path) reads the file at video_path
OpenVideo ==
  /\ pc = "open_video"
  /\ IF video_path \in disk
     THEN /\ pc' = "analyze"
          /\ UNCHANGED err
     ELSE /\ err' = "OSError"
          /\ pc' = "idle"
  /\ UNCHANGED <<detectorVars, clip_starts, renderVars, disk, pipelineVars>>

NextPipeline ==
  \/ ClickGenerate
  \/ DownloadCached
  \/ DownloadOk
  \/ DownloadFail
  \/ WriteSubtitles
  \/ OpenVideo

SpecPipeline == InitPipeline /\ [][NextPipeline]_vars

----------------------------------------------------------------------------
(* Properties *)

\* analyze_for_clips has returned a list
Analyzed == pc \notin {"analyze", "idle"} /\ err # "ZeroDivisionError"

\* the candidate offsets from both sources, as a set
Candidates ==
  Range(PeakTimes(audio)) \cup Range(EngagingTimes(subs, duration))

Min(a, b) == IF a <= b THEN a ELSE b

\* C1: every clip window the renderer builds has end <= duration and end > start
\* and lies within [0, duration], for peak-derived and keyword-derived offsets alike.
C1_WindowWithinDuration ==
  \A k \in 1..Len(subclips) :
    /\ FLeq(FromInt(0), subclips[k].start)
    /\ FLess(subclips[k].start, subclips[k].end)
    /\ FLeq(subclips[k].end, FromInt(duration))

\* C2: the returned offsets are at most 5, strictly ascending without duplicates,
\* and are the smallest min(5, n) of the n distinct candidate offsets.
C2_AtMostFiveAscending ==
  Analyzed =>
    /\ Len(clip_starts) <= 5
    /\ \A a, b \in 1..Len(clip_starts) : a < b => FLess(clip_starts[a], clip_starts[b])
    /\ Range(clip_starts) \subseteq Candidates
    /\ Len(clip_starts) = Min(5, Cardinality(Candidates))
    /\ \A u \in Candidates \ Range(clip_starts) :
         \A c \in Range(clip_starts) : FLess(c, u)

C2_Witness ==
  /\ Analyzed
  /\ Len(clip_starts) = 5
  /\ Cardinality(Candidates) > 5
  /\ PeakTimes(audio) # <<>>

\* C3: with zero audio samples, detection fails with EmptyAudioError and never
\* with a division error.
C3_EmptyAudioError ==
  (Len(audio) = 0 /\ pc # "analyze") => err = "EmptyAudioError"

\* C4: for an offset start >= duration the renderer fails with InvalidOffsetError:
\* its iteration never completes, no clip is extracted or written for it, and the
\* failure that stops the renderer there is InvalidOffsetError.
C4_InvalidOffsetError ==
  \A k \in 1..Len(clip_starts) :
    FLeq(FromInt(duration), clip_starts[k]) =>
      /\ i < k
      /\ \A s \in 1..Len(subclips) : subclips[s].start # clip_starts[k]
      /\ \A w \in 1..Len(writes) : writes[w].start # clip_starts[k]
      /\ (pc = "failed" /\ i = k - 1) => err = "InvalidOffsetError"

\* the audio has 10 samples, 9 of one magnitude m > 0 and one of magnitude 10*m
SpikeShaped(a) ==
  /\ Len(a) = 10
  /\ LET vol == Volumes(a)
     IN  \E j \in 1..10 :
           /\ vol[j] > 0
           /\ \E h \in 1..10 : h # j /\ vol[h] = 10 * vol[j]
           /\ Cardinality({h \in 1..10 : vol[h] = vol[j]}) = 9

\* the magnitude m of a SpikeShaped audio
BaseMagnitude(a) ==
  LET vol == Volumes(a)
  IN  CHOOSE m \in Range(vol) : \A v \in Range(vol) : m <= v

SpikeCase ==
  /\ SpikeShaped(audio)
  /\ duration = 100
  /\ ~subs.given
  /\ Analyzed

\* C5 as claimed: for 9 samples of magnitude m and one of 10*m, duration 100 and no
\* transcript, the baseline is 1.9*m, exactly one sample is a peak, and the detector
\* returns a single offset.
C5_SingleOffset ==
  SpikeCase =>
    /\ AvgVolume(Volumes(audio)) = Frac(19 * BaseMagnitude(audio), 10)
    /\ Len(Peaks(Volumes(audio))) = 1
    /\ Len(clip_starts) = 1

\* C5 as amended: in the same case the baseline is 1.9*m and exactly one sample is
\* a peak, but floor(1/100) = 0 peaks are kept: the detector returns no offset and
\* the run stops with "no clips".
C5_NoOffset ==
  SpikeCase =>
    /\ AvgVolume(Volumes(audio)) = Frac(19 * BaseMagnitude(audio), 10)
    /\ Len(Peaks(Volumes(audio))) = 1
    /\ clip_starts = <<>>
    /\ pc = "no_clips"

C5_Witness == SpikeCase /\ pc = "no_clips" /\ BaseMagnitude(audio) = 2

\* C6: a returned clip file is on disk whenever the display step reads it, and
\* stays on disk until it has been read.
C6_ClipExistsWhenConsumed ==
  /\ \A k \in 1..Len(shown) : shown[k].existed
  /\ returned.ok =>
       \A k \in (Len(shown) + 1)..Len(returned.files) : returned.files[k] \in disk

\* C7: when a script run has ended, no file it created is left in temporary storage.
C7_NoArtifactLeft ==
  pc = "idle" => disk = {}

\* C8: when rendering succeeds, exactly one path per offset is returned, the k-th
\* path is short_<k>.mp4 and was written, as the k-th file, from the k-th offset.
C8_OnePathPerOffset ==
  /\ \A k \in 1..Len(writes) :
       /\ writes[k].file.n = k
       /\ writes[k].start = clip_starts[k]
  /\ returned.ok =>
       /\ Len(returned.files) = Len(clip_starts)
       /\ Len(writes) = Len(clip_starts)
       /\ \A k \in 1..Len(returned.files) :
            /\ returned.files[k].n = k
            /\ returned.files[k] = writes[k].file

C8_Witness ==
  /\ returned.ok
  /\ Len(returned.files) >= 3
  /\ Len(clip_starts) = Len(returned.files)

\* C9: when extraction or encoding fails for the k-th offset, the renderer stops
\* there: nothing is extracted for a later offset, no list is returned, and the
\* failure reaches the caller.
C9_FailFast ==
  Len(subclips) > Len(writes) =>
    /\ pc = "failed"
    /\ err = "RenderError"
    /\ Len(subclips) = Len(writes) + 1
    /\ ~returned.ok
    /\ shown = <<>>

C9_Witness ==
  /\ pc = "failed"
  /\ err = "RenderError"
  /\ Len(writes) >= 1
  /\ Len(subclips) < Len(clip_starts)

amazing == engaging_keywords[1]
shocking == engaging_keywords[2]

\* the offset p / L * duration is in the merged set and within [0, duration)
OffsetOf(p) ==
  LET o == Frac(p * duration, Len(subs.text))
  IN  /\ o \in Range(AllTimes(audio, duration, subs))
      /\ FLeq(FromInt(0), o)
      /\ FLess(o, FromInt(duration))

\* C10 as claimed: every case-insensitive keyword occurrence at position p gives the
\* candidate offset p / L * duration, within [0, duration); the scenario transcript
\* has length 36 with "amazing" at 8 and "shocking" at 27 and gives [8.0, 27.0].
C10_EveryOccurrence ==
  (Analyzed /\ subs.given) =>
    /\ \A k \in 1..Len(engaging_keywords) : \A p \in 0..(Len(subs.text) - 1) :
         MatchesAt(engaging_keywords[k], subs.text, p) => OffsetOf(p)
    /\ subs.text = ScenarioTranscript =>
         /\ Len(subs.text) = 36
         /\ MatchesAt(amazing, subs.text, 8)
         /\ MatchesAt(shocking, subs.text, 27)
         /\ (duration = 36 /\ PeakTimes(audio) = <<>>) =>
              clip_starts = <<FromInt(8), FromInt(27)>>

\* an earlier occurrence of kw overlaps the one at p
Overlapped(kw, s, p) ==
  \E q \in (p - Len(kw) + 1)..(p - 1) : q >= 0 /\ MatchesAt(kw, s, q)

\* C10 as amended: every keyword occurrence at p that no earlier occurrence of the
\* same keyword overlaps gives the candidate offset p / L * duration, within
\* [0, duration); the scenario transcript has length 33 with "amazing" at 8 and
\* "shocking" at 25 and gives [8/33*36, 25/33*36] = [96/11, 300/11].
C10_NonOverlappingOccurrence ==
  (Analyzed /\ subs.given) =>
    /\ \A k \in 1..Len(engaging_keywords) : \A p \in 0..(Len(subs.text) - 1) :
         (/\ MatchesAt(engaging_keywords[k], subs.text, p)
          /\ ~Overlapped(engaging_keywords[k], subs.text, p)) => OffsetOf(p)
    /\ subs.text = ScenarioTranscript =>
         /\ Len(subs.text) = 33
         /\ MatchesAt(amazing, subs.text, 8)
         /\ MatchesAt(shocking, subs.text, 25)
         /\ (duration = 36 /\ PeakTimes(audio) = <<>>) =>
              clip_starts = <<Frac(96, 11), Frac(300, 11)>>

C10_Witness ==
  /\ Analyzed
  /\ subs.text = ScenarioTranscript
  /\ duration = 36
  /\ PeakTimes(audio) = <<>>
  /\ Len(clip_starts) = 2

====
